---- MODULE Spec2Model ----
(***************************************************************************)
(* XStore server: the PostgreSQL tables (users, folders, items,            *)
(* item_versions) and the express route handlers that read and write them. *)
(* Every `await pool.query(...)` of a handler is one atomic step; between  *)
(* two steps of one request the steps of other requests may run.           *)
(***************************************************************************)
EXTENDS Integers, Sequences, FiniteSets, Bags, TLC

VARIABLES
    users,          \* users table:          id -> [email]
    folders,        \* folders table:        id -> [name, parent_id, user_id]
    items,          \* items table:          id -> [name, type, encrypted_content, file_path, folder_id, user_id]
    item_versions,  \* item_versions table:  bag of [item_id, encrypted_content, version_number]
                    \*   (its SERIAL id column is never read, so rows are kept without it)
    seq,            \* the SERIAL sequences of users, folders, items (next id to hand out)
    procs,          \* the requests being served: slot -> handler position and locals
    limit,          \* bounds of the run: the last id each sequence may hand out (to a create,
                    \*   to an import), the number of rows item_versions may hold and the
                    \*   number of import requests served (never changes)
    imports,        \* history: the import requests served so far
    hist,           \* history, kept while one request is served at a time: for an item made by POST /api/items,
                    \*   the updates it has had since (see Track)
    service         \* the browser's EncryptionService: its key, the text given to encrypt, the
                    \*   ciphertext returned and what decrypt made of it

vars == <<users, folders, items, item_versions, seq, procs, limit, imports, hist, service>>

(***************************************************************************)
(* Bounds of the model                                                     *)
(***************************************************************************)
NProcs == 2          \* requests served at the same time
MaxItemId == 1       \* item routes: ids the items sequence may hand out
MaxVersions == 3     \* item routes: rows the item_versions table may hold
MaxFolderId == 2     \* folder routes: ids the folders sequence may hand out
MaxFolderItemId == 1 \* folder routes: ids the items sequence may hand out
MaxAccountFolderId == 2 \* import: ids the folders sequence may hand out to POST /api/folders
MaxAccountItemId == 2 \* import: ids the items sequence may hand out to POST /api/items and uploads
MaxImports == 1      \* import requests served in one run
MaxTextLen == 3      \* client cipher: bytes of the longest plaintext

(***************************************************************************)
(* Values                                                                  *)
(***************************************************************************)
\* SQL NULL, and a request field that is undefined or null (node-pg sends both as NULL)
NULL == "NULL"
\* an id that is absent: `undefined` in a request, NULL in a column
NoId == 0

validTypes == {"text", "secret", "api_key", "code", "file"}

\* JavaScript truthiness of a string field (`!name`, `encryptedContent && ...`)
Truthy(s) == s # NULL /\ s # ""

\* SQL COALESCE($n, column)
COALESCE(v, col) == IF v # NULL THEN v ELSE col
COALESCE_ID(v, col) == IF v # NoId THEN v ELSE col

Max(S) == IF S = {} THEN 0 ELSE CHOOSE m \in S : \A x \in S : x <= m

\* f with the row k -> row added
Insert(f, k, row) == [x \in DOMAIN f \cup {k} |-> IF x = k THEN row ELSE f[x]]
\* f without the rows of D
Remove(f, D) == [x \in DOMAIN f \ D |-> f[x]]

(***************************************************************************)
(* Request slots                                                           *)
(***************************************************************************)
\* a server run: no EncryptionService is looked at
NoService ==
    [stage |-> "none", key |-> NoId, text |-> <<>>, encrypted |-> [salt |-> 0, ct |-> <<>>],
     decrypted |-> [ok |-> FALSE, text |-> <<>>]]

\* no tables: a request that holds no transaction
NoTables == [folders |-> <<>>, items |-> <<>>, item_versions |-> EmptyBag]

\* a request without backupData.data
NoBundle == [key |-> NoId, hasData |-> FALSE, parses |-> FALSE, wellFormed |-> FALSE,
             exported |-> FALSE, folders |-> <<>>, items |-> <<>>]

Idle ==
    [op |-> "none", pc |-> "done", user |-> NoId, id |-> NoId, name |-> NULL,
     type |-> NULL, enc |-> NULL, fid |-> NoId, old |-> NULL, nextVersion |-> 0,
     bundle |-> NoBundle, clearExisting |-> FALSE, map |-> <<>>,
     newFolders |-> {}, newItems |-> <<>>, turn |-> 0, before |-> NoTables, tx |-> NoTables,
     held |-> 0,
     status |-> 0, body |-> <<>>, during |-> "none", changed |-> FALSE, appended |-> 0]

\* a slot is free once the previous request on it has been answered
Free(p) == procs[p].pc = "done"

\* req.user is set by authenticateToken: the token's user must still exist
authenticateToken(u) == u \in DOMAIN users

\* res.status(st).json(...): the handler is over; the slot keeps the request (op, user,
\* id, enc, bundle, clearExisting), what the handler read and built (old, map), the
\* response (status, body) and what the request did (changed, appended; for an import
\* newFolders, the ids of the folder rows it inserted, and newItems, the id of the item
\* row inserted for the k-th item of the bundle; for a listing `during`, where an import
\* transaction of the same user stood when the SELECT ran) and `held`, the clients the
\* handler took with pool.connect() and has not released
Respond(r, st) ==
    [Idle EXCEPT !.op = r.op, !.user = r.user, !.id = r.id, !.enc = r.enc, !.old = r.old,
                 !.bundle = r.bundle, !.clearExisting = r.clearExisting, !.map = r.map,
                 !.newFolders = r.newFolders, !.newItems = r.newItems,
                 !.held = r.held,
                 !.status = st, !.body = r.body, !.during = r.during, !.changed = r.changed,
                 !.appended = r.appended]

Goto(r, pc) == [r EXCEPT !.pc = pc]

(***************************************************************************)
(* Queries used by several handlers                                        *)
(***************************************************************************)
\* SELECT id FROM folders WHERE id = $1 AND user_id = $2
OwnsFolder_AnyUser(u, f) == f \in DOMAIN folders
OwnsFolder(u, f) == f \in DOMAIN folders /\ folders[f].user_id = u

\* SELECT ... FROM items WHERE id = $1 AND user_id = $2
OwnsItem(u, i) == i \in DOMAIN items /\ items[i].user_id = u

\* the rows of item_versions WHERE item_id = $1, as a bag
VersionsOf(i) ==
    [v \in {x \in DOMAIN item_versions : x.item_id = i} |-> item_versions[v]]

\* SELECT MAX(version_number) FROM item_versions WHERE item_id = $1  (NULL -> 0 by `|| 0`)
MaxVersion(i) == Max({v.version_number : v \in DOMAIN VersionsOf(i)})

\* INSERT INTO item_versions (item_id, encrypted_content, version_number)
InsertVersion_Overwrite(i, enc, n) ==
    [v \in {x \in DOMAIN item_versions : x.item_id # i} |-> item_versions[v]]
        (+) SetToBag({[item_id |-> i, encrypted_content |-> enc, version_number |-> n]})
InsertVersion(i, enc, n) ==
    item_versions (+) SetToBag({[item_id |-> i, encrypted_content |-> enc, version_number |-> n]})

\* ON DELETE CASCADE of item_versions.item_id
DeleteItems(D) ==
    /\ items' = Remove(items, D)
    /\ item_versions' = [v \in {x \in DOMAIN item_versions : x.item_id \notin D} |-> item_versions[v]]

\* folders reached from the folders of D over parent_id, D included
\* (ON DELETE CASCADE of folders.parent_id)
RECURSIVE Subtree(_)
Subtree(D) ==
    LET E == D \cup {f \in DOMAIN folders : folders[f].parent_id \in D}
    IN IF E = D THEN D ELSE Subtree(E)

\* DELETE FROM folders WHERE id IN D, with the cascades to subfolders, items and versions
DeleteFolders(D) ==
    LET F == Subtree(D \cap DOMAIN folders)
    IN /\ folders' = Remove(folders, F)
       /\ DeleteItems({i \in DOMAIN items : items[i].folder_id \in F})

\* UNIQUE(name, parent_id, user_id) of folders: would the row collide with a row other
\* than `self`?  Rows with a NULL parent_id never collide.
UniqueViolation(name, parent, u, self) ==
    /\ parent # NoId
    /\ \E f \in DOMAIN folders \ {self} :
          folders[f].name = name /\ folders[f].parent_id = parent /\ folders[f].user_id = u

\* SELECT id FROM folders WHERE name = $1 AND parent_id = $2 AND user_id = $3 [AND id != $4]
\* (`parent_id = NULL` is true of no row)
DuplicateRows(name, parent, u, self) ==
    {f \in DOMAIN folders \ {self} :
        /\ parent # NoId
        /\ folders[f].name = name /\ folders[f].parent_id = parent /\ folders[f].user_id = u}

\* requests in flight that will still take an id from a sequence
PendingFolderInserts ==
    Cardinality({p \in DOMAIN procs : procs[p].pc # "done" /\ procs[p].op \in {"register", "createFolder"}})
PendingItemInserts ==
    Cardinality({p \in DOMAIN procs : procs[p].op \in {"createItem", "upload"} /\ procs[p].pc = "insert"})
PendingVersionInserts ==
    Cardinality({p \in DOMAIN procs : procs[p].pc # "done" /\
                    \/ procs[p].op = "createItem"
                    \/ procs[p].op = "updateItem" /\ Truthy(procs[p].enc)})

(***************************************************************************)
(* History of the step just taken, kept while requests are served one at a *)
(* time.  An item enters hist when POST /api/items inserts it; each UPDATE *)
(* statement of PUT /api/items/:id on it is counted in `updates` when the  *)
(* request carried content other than the content the item had, and clears *)
(* `distinct` otherwise; an item that is deleted leaves hist.              *)
(***************************************************************************)
Track ==
    /\ UNCHANGED <<limit, service>>
    /\ imports' = IF \E q \in DOMAIN procs :
                        procs[q].pc = "done" /\ procs'[q] # procs[q] /\ procs'[q].op = "import"
                  THEN imports + 1 ELSE imports
    /\ LET p == CHOOSE q \in DOMAIN procs : procs' = procs \/ procs'[q] # procs[q]
           r == procs[p]
       IN hist' =
           IF procs' = procs \/ Cardinality(DOMAIN procs) > 1 THEN hist
           ELSE IF r.op = "createItem" /\ r.pc = "insert" /\ procs'[p].pc = "version"
           THEN Insert(hist, procs'[p].id, [updates |-> 0, distinct |-> TRUE])
           ELSE IF r.op = "updateItem" /\ r.pc = "update" /\ procs'[p].status # 500 /\ r.id \in DOMAIN hist
           THEN [hist EXCEPT ![r.id] =
                   IF r.enc # NULL /\ r.enc # r.old
                   THEN [@ EXCEPT !.updates = @ + 1]
                   ELSE [@ EXCEPT !.distinct = FALSE]]
           ELSE Remove(hist, DOMAIN hist \ DOMAIN items')

(***************************************************************************)
(* POST /api/items                                                         *)
(***************************************************************************)
CreateItemCheck(p, u, b) ==
    /\ Free(p) /\ authenticateToken(u)
    /\ seq.items + PendingItemInserts <= limit.items
    /\ BagCardinality(item_versions) + PendingVersionInserts < limit.versions
    /\ LET r == [Idle EXCEPT !.op = "createItem", !.user = u, !.name = b.name,
                             !.type = b.type, !.enc = b.encryptedContent, !.fid = b.folderId]
       IN procs' = [procs EXCEPT ![p] =
            IF ~Truthy(b.name) \/ ~Truthy(b.type) \/ b.folderId = NoId THEN Respond(r, 400)
            ELSE IF b.type \notin validTypes THEN Respond(r, 400)
            ELSE IF ~OwnsFolder(u, b.folderId) THEN Respond(r, 404)
            ELSE Goto(r, "insert")]
    /\ UNCHANGED <<users, folders, items, item_versions, seq>>
    /\ Track

CreateItemInsert(p) ==
    /\ procs[p].op = "createItem" /\ procs[p].pc = "insert"
    /\ LET r == procs[p]
           id == seq.items
       IN /\ seq' = [seq EXCEPT !.items = id + 1]
          /\ IF r.fid \in DOMAIN folders
             THEN /\ items' = Insert(items, id,
                        [name |-> r.name, type |-> r.type, encrypted_content |-> r.enc,
                         file_path |-> NULL, folder_id |-> r.fid, user_id |-> r.user])
                  /\ procs' = [procs EXCEPT ![p] = Goto([r EXCEPT !.id = id], "version")]
             ELSE \* foreign key items.folder_id violated: caught, 500
                  /\ procs' = [procs EXCEPT ![p] = Respond(r, 500)]
                  /\ UNCHANGED items
    /\ UNCHANGED <<users, folders, item_versions>>
    /\ Track

CreateItemVersion(p) ==
    /\ procs[p].op = "createItem" /\ procs[p].pc = "version"
    /\ LET r == procs[p]
       IN /\ IF r.id \in DOMAIN items
             THEN /\ item_versions' = InsertVersion(r.id, r.enc, 1)
                  /\ procs' = [procs EXCEPT ![p] = Respond([r EXCEPT !.appended = 1], 201)]
             ELSE \* foreign key item_versions.item_id violated: caught, 500
                  /\ procs' = [procs EXCEPT ![p] = Respond(r, 500)]
                  /\ UNCHANGED item_versions
    /\ UNCHANGED <<users, folders, items, seq>>
    /\ Track

(***************************************************************************)
(* PUT /api/items/:id                                                      *)
(***************************************************************************)
\* (mutant) the comparison with the content read by itemCheck left out
ContentChanged_NoCompare(enc, old) == Truthy(enc)

\* `encryptedContent && encryptedContent !== itemCheck.rows[0].encrypted_content`
ContentChanged(enc, old) == Truthy(enc) /\ enc # old

UpdateItemCheck(p, u, id, b) ==
    /\ Free(p) /\ authenticateToken(u)
    /\ BagCardinality(item_versions) + PendingVersionInserts < limit.versions
    /\ LET r == [Idle EXCEPT !.op = "updateItem", !.user = u, !.id = id, !.name = b.name,
                             !.enc = b.encryptedContent, !.fid = b.folderId]
       IN procs' = [procs EXCEPT ![p] =
            IF ~OwnsItem(u, id) THEN Respond(r, 404)
            ELSE Goto([r EXCEPT !.old = items[id].encrypted_content],
                      IF b.folderId # NoId THEN "folder" ELSE "max")]
    /\ UNCHANGED <<users, folders, items, item_versions, seq>>
    /\ Track

UpdateItemFolder(p) ==
    /\ procs[p].op = "updateItem" /\ procs[p].pc = "folder"
    /\ procs' = [procs EXCEPT ![p] =
            IF ~OwnsFolder(procs[p].user, procs[p].fid) THEN Respond(procs[p], 404)
            ELSE Goto(procs[p], "max")]
    /\ UNCHANGED <<users, folders, items, item_versions, seq>>
    /\ Track

UpdateItemMax(p) ==
    /\ procs[p].op = "updateItem" /\ procs[p].pc = "max"
    /\ procs' = [procs EXCEPT ![p] =
            Goto([procs[p] EXCEPT !.nextVersion = MaxVersion(procs[p].id) + 1], "update")]
    /\ UNCHANGED <<users, folders, items, item_versions, seq>>
    /\ Track

UpdateItemUpdate(p) ==
    /\ procs[p].op = "updateItem" /\ procs[p].pc = "update"
    /\ LET r == procs[p]
           hit == OwnsItem(r.user, r.id)
           row == items[r.id]
           new == [row EXCEPT !.name = COALESCE(r.name, @),
                              !.encrypted_content = COALESCE(r.enc, @),
                              !.folder_id = COALESCE_ID(r.fid, @)]
           rr == [r EXCEPT !.changed = hit /\ new.encrypted_content # row.encrypted_content]
       IN IF hit /\ new.folder_id \notin DOMAIN folders
          THEN \* foreign key items.folder_id violated: caught, 500
               /\ procs' = [procs EXCEPT ![p] = Respond(r, 500)]
               /\ UNCHANGED items
          ELSE /\ items' = IF hit THEN [items EXCEPT ![r.id] = new] ELSE items
               /\ procs' = [procs EXCEPT ![p] =
                        IF ContentChanged(r.enc, r.old) THEN Goto(rr, "version")
                        ELSE Respond(rr, 200)]
    /\ UNCHANGED <<users, folders, item_versions, seq>>
    /\ Track

UpdateItemVersion(p) ==
    /\ procs[p].op = "updateItem" /\ procs[p].pc = "version"
    /\ LET r == procs[p]
       IN /\ IF r.id \in DOMAIN items
             THEN /\ item_versions' = InsertVersion(r.id, r.enc, r.nextVersion)
                  /\ procs' = [procs EXCEPT ![p] = Respond([r EXCEPT !.appended = 1], 200)]
             ELSE \* foreign key item_versions.item_id violated: caught, 500
                  /\ procs' = [procs EXCEPT ![p] = Respond(r, 500)]
                  /\ UNCHANGED item_versions
    /\ UNCHANGED <<users, folders, items, seq>>
    /\ Track

(***************************************************************************)
(* GET /api/items/:id/versions                                             *)
(***************************************************************************)
\* the version numbers of the rows of the bag V, ORDER BY version_number DESC
RECURSIVE OrderDesc(_)
OrderDesc(V) ==
    IF DOMAIN V = {} THEN <<>>
    ELSE LET v == CHOOSE x \in DOMAIN V : \A y \in DOMAIN V : y.version_number <= x.version_number
         IN <<v.version_number>> \o OrderDesc(V (-) SetToBag({v}))

ListVersionsCheck(p, u, id) ==
    /\ Free(p) /\ authenticateToken(u)
    /\ LET r == [Idle EXCEPT !.op = "listVersions", !.user = u, !.id = id]
       IN procs' = [procs EXCEPT ![p] =
            IF ~OwnsItem(u, id) THEN Respond(r, 404) ELSE Goto(r, "select")]
    /\ UNCHANGED <<users, folders, items, item_versions, seq>>
    /\ Track

ListVersionsSelect(p) ==
    /\ procs[p].op = "listVersions" /\ procs[p].pc = "select"
    /\ procs' = [procs EXCEPT ![p] =
            Respond([procs[p] EXCEPT !.body = OrderDesc(VersionsOf(procs[p].id))], 200)]
    /\ UNCHANGED <<users, folders, items, item_versions, seq>>
    /\ Track

(***************************************************************************)
(* DELETE /api/items/:id                                                   *)
(***************************************************************************)
DeleteItem(p, u, id) ==
    /\ Free(p) /\ authenticateToken(u)
    /\ LET r == [Idle EXCEPT !.op = "deleteItem", !.user = u, !.id = id]
       IN IF OwnsItem(u, id)
          THEN /\ DeleteItems({id})
               /\ procs' = [procs EXCEPT ![p] = Respond(r, 200)]
          ELSE /\ procs' = [procs EXCEPT ![p] = Respond(r, 404)]
               /\ UNCHANGED <<items, item_versions>>
    /\ UNCHANGED <<users, folders, seq>>
    /\ Track

(***************************************************************************)
(* POST /api/files/upload                                                  *)
(***************************************************************************)
\* hasFile: multer stored an uploaded file (req.file); encrypt: the form's `encrypt` field
UploadCheck(p, u, hasFile, fid, encrypt) ==
    /\ Free(p) /\ authenticateToken(u)
    /\ seq.items + PendingItemInserts <= limit.items
    /\ LET r == [Idle EXCEPT !.op = "upload", !.user = u, !.name = "file.bin", !.type = "file",
                             !.enc = IF encrypt THEN "encrypted" ELSE NULL, !.fid = fid]
       IN procs' = [procs EXCEPT ![p] =
            IF ~hasFile THEN Respond(r, 400)
            ELSE IF ~OwnsFolder(u, fid) THEN Respond(r, 404)
            ELSE Goto(r, "insert")]
    /\ UNCHANGED <<users, folders, items, item_versions, seq>>
    /\ Track

UploadInsert(p) ==
    /\ procs[p].op = "upload" /\ procs[p].pc = "insert"
    /\ LET r == procs[p]
           id == seq.items
       IN /\ seq' = [seq EXCEPT !.items = id + 1]
          /\ IF r.fid \in DOMAIN folders
             THEN /\ items' = Insert(items, id,
                        [name |-> r.name, type |-> "file", encrypted_content |-> r.enc,
                         file_path |-> "uploads/f", folder_id |-> r.fid, user_id |-> r.user])
                  /\ procs' = [procs EXCEPT ![p] = Respond([r EXCEPT !.id = id], 201)]
             ELSE \* foreign key items.folder_id violated: caught, 500
                  /\ procs' = [procs EXCEPT ![p] = Respond(r, 500)]
                  /\ UNCHANGED items
    /\ UNCHANGED <<users, folders, item_versions>>
    /\ Track

(***************************************************************************)
(* POST /api/auth/register                                                 *)
(***************************************************************************)
RegisterCheck(p, email, password) ==
    /\ Free(p)
    /\ seq.folders + PendingFolderInserts <= limit.folders
    /\ LET r == [Idle EXCEPT !.op = "register", !.name = email]
       IN procs' = [procs EXCEPT ![p] =
            IF ~Truthy(email) \/ ~Truthy(password) THEN Respond(r, 400)
            ELSE IF \E u \in DOMAIN users : users[u].email = email THEN Respond(r, 409)
            ELSE Goto(r, "user")]
    /\ UNCHANGED <<users, folders, items, item_versions, seq>>
    /\ Track

RegisterUser(p) ==
    /\ procs[p].op = "register" /\ procs[p].pc = "user"
    /\ LET r == procs[p]
           id == seq.users
       IN /\ seq' = [seq EXCEPT !.users = id + 1]
          /\ IF \E u \in DOMAIN users : users[u].email = r.name
             THEN \* UNIQUE(email) violated: caught, 500
                  /\ procs' = [procs EXCEPT ![p] = Respond(r, 500)]
                  /\ UNCHANGED users
             ELSE /\ users' = Insert(users, id, [email |-> r.name])
                  /\ procs' = [procs EXCEPT ![p] = Goto([r EXCEPT !.user = id], "root")]
    /\ UNCHANGED <<folders, items, item_versions>>
    /\ Track

RegisterRoot(p) ==
    /\ procs[p].op = "register" /\ procs[p].pc = "root"
    /\ LET r == procs[p]
           id == seq.folders
       IN /\ seq' = [seq EXCEPT !.folders = id + 1]
          /\ folders' = Insert(folders, id, [name |-> "Root", parent_id |-> NoId, user_id |-> r.user])
          /\ procs' = [procs EXCEPT ![p] = Respond([r EXCEPT !.id = r.user], 201)]
    /\ UNCHANGED <<users, items, item_versions>>
    /\ Track

(***************************************************************************)
(* POST /api/folders                                                       *)
(***************************************************************************)
CreateFolderCheck(p, u, name, parentId) ==
    /\ Free(p) /\ authenticateToken(u)
    /\ seq.folders + PendingFolderInserts <= limit.folders
    /\ LET r == [Idle EXCEPT !.op = "createFolder", !.user = u, !.name = name, !.fid = parentId]
       IN procs' = [procs EXCEPT ![p] =
            IF ~Truthy(name) THEN Respond(r, 400)
            ELSE IF parentId # NoId
                 THEN IF ~OwnsFolder(u, parentId) THEN Respond(r, 404) ELSE Goto(r, "dup")
                 ELSE \* no parentCheck: the first query is the duplicate check
                      IF DuplicateRows(name, NoId, u, NoId) # {} THEN Respond(r, 409)
                      ELSE Goto(r, "insert")]
    /\ UNCHANGED <<users, folders, items, item_versions, seq>>
    /\ Track

CreateFolderDup(p) ==
    /\ procs[p].op = "createFolder" /\ procs[p].pc = "dup"
    /\ procs' = [procs EXCEPT ![p] =
            IF DuplicateRows(procs[p].name, procs[p].fid, procs[p].user, NoId) # {}
            THEN Respond(procs[p], 409)
            ELSE Goto(procs[p], "insert")]
    /\ UNCHANGED <<users, folders, items, item_versions, seq>>
    /\ Track

CreateFolderInsert(p) ==
    /\ procs[p].op = "createFolder" /\ procs[p].pc = "insert"
    /\ LET r == procs[p]
           id == seq.folders
       IN /\ seq' = [seq EXCEPT !.folders = id + 1]
          /\ IF \/ r.fid # NoId /\ r.fid \notin DOMAIN folders
                \/ UniqueViolation(r.name, r.fid, r.user, NoId)
             THEN \* foreign key folders.parent_id or UNIQUE violated: caught, 500
                  /\ procs' = [procs EXCEPT ![p] = Respond(r, 500)]
                  /\ UNCHANGED folders
             ELSE /\ folders' = Insert(folders, id, [name |-> r.name, parent_id |-> r.fid, user_id |-> r.user])
                  /\ procs' = [procs EXCEPT ![p] = Respond([r EXCEPT !.id = id], 201)]
    /\ UNCHANGED <<users, items, item_versions>>
    /\ Track

(***************************************************************************)
(* PUT /api/folders/:id                                                    *)
(***************************************************************************)
UpdateFolderCheck(p, u, id, name, parentId) ==
    /\ Free(p) /\ authenticateToken(u)
    /\ LET r == [Idle EXCEPT !.op = "updateFolder", !.user = u, !.id = id, !.name = name, !.fid = parentId]
       IN procs' = [procs EXCEPT ![p] =
            IF ~Truthy(name) THEN Respond(r, 400)
            ELSE IF ~OwnsFolder(u, id) THEN Respond(r, 404)
            ELSE Goto(r, "dup")]
    /\ UNCHANGED <<users, folders, items, item_versions, seq>>
    /\ Track

UpdateFolderDup(p) ==
    /\ procs[p].op = "updateFolder" /\ procs[p].pc = "dup"
    /\ procs' = [procs EXCEPT ![p] =
            IF DuplicateRows(procs[p].name, procs[p].fid, procs[p].user, procs[p].id) # {}
            THEN Respond(procs[p], 409)
            ELSE Goto(procs[p], "update")]
    /\ UNCHANGED <<users, folders, items, item_versions, seq>>
    /\ Track

UpdateFolderUpdate(p) ==
    /\ procs[p].op = "updateFolder" /\ procs[p].pc = "update"
    /\ LET r == procs[p]
           hit == OwnsFolder(r.user, r.id)
       IN IF hit /\ (\/ r.fid # NoId /\ r.fid \notin DOMAIN folders
                     \/ UniqueViolation(r.name, r.fid, r.user, r.id))
          THEN \* foreign key folders.parent_id or UNIQUE violated: caught, 500
               /\ procs' = [procs EXCEPT ![p] = Respond(r, 500)]
               /\ UNCHANGED folders
          ELSE /\ folders' = IF hit
                             THEN [folders EXCEPT ![r.id] = [@ EXCEPT !.name = r.name, !.parent_id = r.fid]]
                             ELSE folders
               /\ procs' = [procs EXCEPT ![p] = Respond(r, 200)]
    /\ UNCHANGED <<users, items, item_versions, seq>>
    /\ Track

(***************************************************************************)
(* DELETE /api/folders/:id                                                 *)
(***************************************************************************)
\* `folderCheck.rows[0].name === 'Root'`
IsProtected_WrongCase(f) == folders[f].name = "root"
IsProtected(f) == folders[f].name = "Root"

DeleteFolderCheck(p, u, id) ==
    /\ Free(p) /\ authenticateToken(u)
    /\ LET r == [Idle EXCEPT !.op = "deleteFolder", !.user = u, !.id = id]
       IN procs' = [procs EXCEPT ![p] =
            IF ~OwnsFolder(u, id) THEN Respond(r, 404)
            ELSE IF IsProtected(id) THEN Respond(r, 403)
            ELSE Goto(r, "delete")]
    /\ UNCHANGED <<users, folders, items, item_versions, seq>>
    /\ Track

DeleteFolderDelete(p) ==
    /\ procs[p].op = "deleteFolder" /\ procs[p].pc = "delete"
    /\ IF OwnsFolder(procs[p].user, procs[p].id)
       THEN DeleteFolders({procs[p].id})
       ELSE UNCHANGED <<folders, items, item_versions>>
    /\ procs' = [procs EXCEPT ![p] = Respond(procs[p], 200)]
    /\ UNCHANGED <<users, seq>>
    /\ Track

(***************************************************************************)
(* GET /api/backup/export                                                  *)
(* The two SELECTs run one after the other on one client, outside any      *)
(* transaction; the bundle is encrypted under the caller's key.            *)
(***************************************************************************)
\* the ids of S in ascending order (ORDER BY id)
RECURSIVE OrderById(_)
OrderById(S) ==
    IF S = {} THEN <<>>
    ELSE LET m == CHOOSE x \in S : \A y \in S : x <= y
         IN <<m>> \o OrderById(S \ {m})

Sentinel == "[FILE_DATA_NOT_INCLUDED]"

\* file_path: item.type === 'file' ? '[FILE_DATA_NOT_INCLUDED]' : item.file_path
ExportedFilePath_Real(item) == item.file_path
ExportedFilePath(item) == IF item.type = "file" THEN Sentinel ELSE item.file_path

\* SELECT * FROM folders WHERE user_id = $1 ORDER BY id
ExportFolders(p, u) ==
    /\ Free(p) /\ authenticateToken(u)
    /\ LET r == [Idle EXCEPT !.op = "export", !.user = u]
           ids == OrderById({f \in DOMAIN folders : folders[f].user_id = u})
           rows == [k \in DOMAIN ids |->
                       [id |-> ids[k], name |-> folders[ids[k]].name,
                        parent_id |-> folders[ids[k]].parent_id]]
       IN procs' = [procs EXCEPT ![p] =
                       Goto([r EXCEPT !.held = 1, !.bundle = [NoBundle EXCEPT !.folders = rows]],
                            "items")]
    /\ UNCHANGED <<users, folders, items, item_versions, seq>>
    /\ Track

\* SELECT * FROM items WHERE user_id = $1 ORDER BY id; backupData; cipher;
\* client.release(); res.json
ExportItems(p) ==
    /\ procs[p].op = "export" /\ procs[p].pc = "items"
    /\ LET r == procs[p]
           ids == OrderById({i \in DOMAIN items : items[i].user_id = r.user})
           rows == [k \in DOMAIN ids |->
                       [name |-> items[ids[k]].name, type |-> items[ids[k]].type,
                        encrypted_content |-> items[ids[k]].encrypted_content,
                        file_path |-> ExportedFilePath(items[ids[k]]),
                        folder_id |-> items[ids[k]].folder_id]]
           b == [r.bundle EXCEPT !.key = r.user, !.hasData = TRUE, !.parses = TRUE,
                                 !.wellFormed = TRUE, !.exported = TRUE, !.items = rows]
       IN procs' = [procs EXCEPT ![p] = Respond([r EXCEPT !.bundle = b, !.held = r.held - 1], 200)]
    /\ UNCHANGED <<users, folders, items, item_versions, seq>>
    /\ Track

\* the items SELECT is rejected by the database (connection lost, statement cancelled) or
\* the cipher throws: control goes from there to `catch (error)`, which answers 500;
\* client.release() is not on that path
ExportThrows(p) ==
    /\ procs[p].op = "export" /\ procs[p].pc = "items"
    /\ procs' = [procs EXCEPT ![p] = Respond([procs[p] EXCEPT !.bundle = NoBundle], 500)]
    /\ UNCHANGED <<users, folders, items, item_versions, seq>>
    /\ Track

(***************************************************************************)
(* POST /api/backup/import                                                 *)
(* A bundle is what the request carries: `key` is the user whose key       *)
(* encrypted `data` (NoId: no key decrypts it), `hasData` whether          *)
(* backupData.data is present, `parses` whether the plaintext is JSON,     *)
(* `wellFormed` whether it has both a folders and an items field,          *)
(* `exported` whether GET /api/backup/export produced it, and folders /    *)
(* items are the decrypted arrays.                                         *)
(* The statements between BEGIN and COMMIT take effect together, so the    *)
(* transaction is one step.                                                *)
(***************************************************************************)
\* SELECT id FROM folders WHERE name = 'Root' AND parent_id IS NULL AND user_id = $2
ExistingRoot(fs, u) ==
    {f \in DOMAIN fs : fs[f].name = "Root" /\ fs[f].parent_id = NoId /\ fs[f].user_id = u}

\* folderMapping.get(id): NoId when the map has no entry (undefined)
MapGet_Identity(map, id) == id
MapGet(map, id) == IF id \in DOMAIN map THEN map[id] ELSE NoId

\* one turn of `for (const folder of backup.folders)`.
\* st = [folders, next, map, inserted, failed]: the folders table as the transaction sees
\* it, the folders sequence, folderMapping, the ids of the rows inserted so far, and whether
\* a statement has thrown.  `first` is the row existingRoot.rows[0] when the query finds
\* several.
ImportFolder(st, folder, u, clearExisting, first) ==
    LET roots == ExistingRoot(st.folders, u)
    IN IF st.failed THEN st
       ELSE IF folder.name = "Root" /\ ~clearExisting /\ roots # {}
       THEN [st EXCEPT !.map = Insert(@, folder.id,
                                      IF first \in roots THEN first ELSE CHOOSE f \in roots : TRUE)]
       ELSE LET parentId == IF folder.parent_id # NoId THEN MapGet(st.map, folder.parent_id) ELSE NoId
                id == st.next
                conflict ==
                    /\ parentId # NoId
                    /\ \E f \in DOMAIN st.folders :
                          /\ st.folders[f].name = folder.name
                          /\ st.folders[f].parent_id = parentId
                          /\ st.folders[f].user_id = u
            IN IF folder.name = NULL
               THEN \* name VARCHAR(255) NOT NULL violated: the statement throws
                    [st EXCEPT !.next = id + 1, !.failed = TRUE]
               ELSE IF conflict
               THEN \* ON CONFLICT DO NOTHING: no row returned, no mapping
                    [st EXCEPT !.next = id + 1]
               ELSE [st EXCEPT !.next = id + 1,
                               !.folders = Insert(@, id, [name |-> folder.name, parent_id |-> parentId,
                                                          user_id |-> u]),
                               !.map = Insert(@, folder.id, id),
                               !.inserted = @ \cup {id}]

RECURSIVE ImportFolders(_, _, _, _, _)
ImportFolders(st, fs, u, clearExisting, first) ==
    IF fs = <<>> THEN st
    ELSE ImportFolders(ImportFolder(st, Head(fs), u, clearExisting, first), Tail(fs), u, clearExisting, first)

\* `if (item.type === 'file') continue` and `if (!newFolderId) continue`
SkipItem_UnmappedOnly(item, map) == MapGet(map, item.folder_id) = NoId
SkipItem(item, map) == item.type = "file" \/ MapGet(map, item.folder_id) = NoId

\* one turn of `for (const item of backup.items)`.
\* st = [items, next, k, importedItems, inserted, failed]: the items table as the
\* transaction sees it, the items sequence, the turn, the counter, the id inserted for
\* each turn that inserted, and whether a statement has thrown.
ImportItem(st, item, map, u) ==
    IF st.failed THEN st
    ELSE IF SkipItem(item, map) THEN [st EXCEPT !.k = @ + 1]
    ELSE IF item.type \notin validTypes \/ item.name = NULL \/ MapGet(map, item.folder_id) = NoId
    THEN \* CHECK (type IN ...) or NOT NULL violated: the statement throws
         [st EXCEPT !.next = @ + 1, !.failed = TRUE]
    ELSE [st EXCEPT !.next = @ + 1,
                    !.k = @ + 1,
                    !.items = Insert(@, st.next,
                                [name |-> item.name, type |-> item.type,
                                 encrypted_content |-> item.encrypted_content, file_path |-> NULL,
                                 folder_id |-> MapGet(map, item.folder_id), user_id |-> u]),
                    !.importedItems = @ + 1,
                    !.inserted = Insert(@, st.k, st.next)]

RECURSIVE ImportItems(_, _, _, _)
ImportItems(st, is, map, u) ==
    IF is = <<>> THEN st
    ELSE ImportItems(ImportItem(st, Head(is), map, u), Tail(is), map, u)

\* the folders, items and versions left by the `if (clearExisting)` deletes
Cleared_ItemsOnly(u, clearExisting) ==
    LET I == IF clearExisting THEN {i \in DOMAIN items : items[i].user_id = u} ELSE {}
    IN [folders |-> folders,
        items |-> Remove(items, I),
        item_versions |-> [v \in {x \in DOMAIN item_versions : x.item_id \notin I} |-> item_versions[v]]]
Cleared_Always(u, clearExisting) ==
    LET F == Subtree({f \in DOMAIN folders : folders[f].user_id = u})
        I == {i \in DOMAIN items : items[i].user_id = u \/ items[i].folder_id \in F}
    IN [folders |-> Remove(folders, F),
        items |-> Remove(items, I),
        item_versions |-> [v \in {x \in DOMAIN item_versions : x.item_id \notin I} |-> item_versions[v]]]
Cleared_Nothing(u, clearExisting) ==
    [folders |-> folders, items |-> items, item_versions |-> item_versions]
Cleared(u, clearExisting) ==
    LET F == IF clearExisting THEN Subtree({f \in DOMAIN folders : folders[f].user_id = u}) ELSE {}
        I == IF clearExisting
             THEN {i \in DOMAIN items : items[i].user_id = u \/ items[i].folder_id \in F}
             ELSE {}
    IN [folders |-> Remove(folders, F),
        items |-> Remove(items, I),
        item_versions |-> [v \in {x \in DOMAIN item_versions : x.item_id \notin I} |-> item_versions[v]]]

\* decipher.final() accepts the auth tag only under the key that encrypted the data
Decrypts_Always(b, u) == TRUE
Decrypts(b, u) == b.key = u

\* `catch (error) { await client.query('ROLLBACK'); throw error; }`: the tables are what
\* they were at BEGIN, whatever the transaction wrote (tx)
Rollback_KeepsWrites(before, tx) == tx
Rollback(before, tx) == before

Import(p, u, b, clearExisting, first) ==
    /\ Free(p) /\ authenticateToken(u)
    /\ imports < limit.imports
    /\ seq.folders + PendingFolderInserts + Len(b.folders) <= limit.importFolders + 1
    /\ seq.items + PendingItemInserts + Len(b.items) <= limit.importItems + 1
    /\ first \in ExistingRoot(folders, u) \/ (first = NoId /\ ExistingRoot(folders, u) = {})
    /\ LET r == [Idle EXCEPT !.op = "import", !.user = u, !.bundle = b, !.clearExisting = clearExisting]
       IN /\ IF ~b.hasData
             THEN /\ procs' = [procs EXCEPT ![p] = Respond(r, 400)]
                  /\ UNCHANGED <<folders, items, item_versions, seq>>
             ELSE IF ~Decrypts(b, u) \/ ~b.parses
             THEN \* decipher.final() or JSON.parse throws: outer catch, 500
                  /\ procs' = [procs EXCEPT ![p] = Respond(r, 500)]
                  /\ UNCHANGED <<folders, items, item_versions, seq>>
             ELSE IF ~b.wellFormed
             THEN /\ procs' = [procs EXCEPT ![p] = Respond(r, 400)]
                  /\ UNCHANGED <<folders, items, item_versions, seq>>
             ELSE LET c == Cleared(u, clearExisting)
                      sf == ImportFolders([folders |-> c.folders, next |-> seq.folders, map |-> <<>>,
                                           inserted |-> {}, failed |-> FALSE],
                                          b.folders, u, clearExisting, first)
                      si == ImportItems([items |-> c.items, next |-> seq.items, k |-> 1,
                                         importedItems |-> 0, inserted |-> <<>>,
                                         failed |-> sf.failed],
                                        b.items, sf.map, u)
                      before == [folders |-> folders, items |-> items, item_versions |-> item_versions]
                      tx == [folders |-> sf.folders, items |-> si.items, item_versions |-> c.item_versions]
                  IN /\ seq' = [seq EXCEPT !.folders = sf.next, !.items = si.next]
                     /\ IF si.failed
                        THEN \* ROLLBACK, rethrow: 500
                             /\ procs' = [procs EXCEPT ![p] = Respond(r, 500)]
                             /\ folders' = Rollback(before, tx).folders
                             /\ items' = Rollback(before, tx).items
                             /\ item_versions' = Rollback(before, tx).item_versions
                        ELSE \* COMMIT
                             /\ folders' = tx.folders
                             /\ items' = tx.items
                             /\ item_versions' = tx.item_versions
                             /\ procs' = [procs EXCEPT ![p] =
                                    Respond([r EXCEPT !.map = sf.map, !.newFolders = sf.inserted,
                                                      !.newItems = si.inserted,
                                                      !.body = <<Len(b.folders), si.importedItems>>], 200)]
    /\ UNCHANGED users
    /\ Track

(***************************************************************************)
(* POST /api/backup/import, statement by statement                         *)
(* BEGIN opens a transaction on the connection `client`; what a statement  *)
(* on that connection writes stays in the transaction's own view (tx) and  *)
(* reaches the tables at COMMIT; a statement on the pool commits at once.  *)
(* `before` is the tables at BEGIN and `turn` the number of loop turns     *)
(* done, the folder loop first.  The folders and items sequences are not   *)
(* transactional: they advance with each INSERT.                           *)
(***************************************************************************)
\* the connection a write of the import runs on: every one is client.query(...)
Connection_PoolForDeletes(stmt) == IF stmt = "delete" THEN "pool" ELSE "client"
Connection(stmt) == "client"

\* the tables after statement stmt has left the view w
Written(stmt, w) ==
    IF Connection(stmt) = "client"
    THEN [folders |-> folders, items |-> items, item_versions |-> item_versions]
    ELSE w

\* where the handler stands after `turn` loop turns
LoopPc(b, turn) ==
    IF turn < Len(b.folders) THEN "folders"
    ELSE IF turn < Len(b.folders) + Len(b.items) THEN "items"
    ELSE "commit"

\* the validation, pool.connect() and BEGIN
ImportBegin(p, u, b, clearExisting) ==
    /\ Free(p) /\ authenticateToken(u)
    /\ imports < limit.imports
    /\ seq.folders + PendingFolderInserts + Len(b.folders) <= limit.importFolders + 1
    /\ seq.items + PendingItemInserts + Len(b.items) <= limit.importItems + 1
    /\ LET r == [Idle EXCEPT !.op = "import", !.user = u, !.bundle = b, !.clearExisting = clearExisting]
           now == [folders |-> folders, items |-> items, item_versions |-> item_versions]
       IN procs' = [procs EXCEPT ![p] =
             IF ~b.hasData THEN Respond(r, 400)
             ELSE IF ~Decrypts(b, u) \/ ~b.parses THEN Respond(r, 500)
             ELSE IF ~b.wellFormed THEN Respond(r, 400)
             ELSE [r EXCEPT !.held = 1, !.before = now, !.tx = now,
                            !.pc = IF clearExisting THEN "deleteItems" ELSE LoopPc(b, 0)]]
    /\ UNCHANGED <<users, folders, items, item_versions, seq>>
    /\ Track

\* DELETE FROM items WHERE user_id = $1 (item_versions rows go by ON DELETE CASCADE)
ImportDeleteItems(p) ==
    /\ procs[p].op = "import" /\ procs[p].pc = "deleteItems"
    /\ LET r == procs[p]
           I == {i \in DOMAIN r.tx.items : r.tx.items[i].user_id = r.user}
           w == [r.tx EXCEPT !.items = Remove(@, I),
                             !.item_versions = [v \in {x \in DOMAIN @ : x.item_id \notin I} |-> @[v]]]
       IN /\ procs' = [procs EXCEPT ![p] = [r EXCEPT !.tx = w, !.pc = "deleteFolders"]]
          /\ folders' = Written("delete", w).folders
          /\ items' = Written("delete", w).items
          /\ item_versions' = Written("delete", w).item_versions
    /\ UNCHANGED <<users, seq>>
    /\ Track

\* DELETE FROM folders WHERE user_id = $1
ImportDeleteFolders(p) ==
    /\ procs[p].op = "import" /\ procs[p].pc = "deleteFolders"
    /\ LET r == procs[p]
           w == Cleared(r.user, TRUE)
       IN /\ procs' = [procs EXCEPT ![p] = [r EXCEPT !.tx = w, !.pc = LoopPc(r.bundle, 0)]]
          /\ folders' = Written("delete", w).folders
          /\ items' = Written("delete", w).items
          /\ item_versions' = Written("delete", w).item_versions
    /\ UNCHANGED <<users, seq>>
    /\ Track

\* one turn of the folder loop; a statement that throws leads to the catch block
ImportFolderTurn(p, first) ==
    /\ procs[p].op = "import" /\ procs[p].pc = "folders"
    /\ LET r == procs[p]
           roots == ExistingRoot(r.tx.folders, r.user)
           st == ImportFolder([folders |-> r.tx.folders, next |-> seq.folders, map |-> r.map,
                               inserted |-> r.newFolders, failed |-> FALSE],
                              r.bundle.folders[r.turn + 1], r.user, r.clearExisting, first)
           w == [r.tx EXCEPT !.folders = st.folders]
       IN /\ first \in roots \/ (first = NoId /\ roots = {})
          /\ procs' = [procs EXCEPT ![p] =
                [r EXCEPT !.tx = w, !.map = st.map, !.newFolders = st.inserted,
                          !.turn = @ + 1,
                          !.pc = IF st.failed THEN "rollback" ELSE LoopPc(r.bundle, r.turn + 1)]]
          /\ seq' = [seq EXCEPT !.folders = st.next]
          /\ folders' = Written("insert", w).folders
          /\ items' = Written("insert", w).items
          /\ item_versions' = Written("insert", w).item_versions
    /\ UNCHANGED users
    /\ Track

\* one turn of the item loop
ImportItemTurn(p) ==
    /\ procs[p].op = "import" /\ procs[p].pc = "items"
    /\ LET r == procs[p]
           k == r.turn - Len(r.bundle.folders) + 1
           st == ImportItem([items |-> r.tx.items, next |-> seq.items, k |-> k,
                             importedItems |-> Cardinality(DOMAIN r.newItems),
                             inserted |-> r.newItems, failed |-> FALSE],
                            r.bundle.items[k], r.map, r.user)
           w == [r.tx EXCEPT !.items = st.items]
       IN /\ procs' = [procs EXCEPT ![p] =
                [r EXCEPT !.tx = w, !.newItems = st.inserted, !.turn = @ + 1,
                          !.pc = IF st.failed THEN "rollback" ELSE LoopPc(r.bundle, r.turn + 1)]]
          /\ seq' = [seq EXCEPT !.items = st.next]
          /\ folders' = Written("insert", w).folders
          /\ items' = Written("insert", w).items
          /\ item_versions' = Written("insert", w).item_versions
    /\ UNCHANGED users
    /\ Track

\* COMMIT, res.json({ message, imported: { folders, items } }), `finally { client.release() }`
ImportCommit(p) ==
    /\ procs[p].op = "import" /\ procs[p].pc = "commit"
    /\ LET r == procs[p]
       IN /\ procs' = [procs EXCEPT ![p] =
                Respond([r EXCEPT !.body = <<Len(r.bundle.folders), Cardinality(DOMAIN r.newItems)>>,
                                  !.held = r.held - 1], 200)]
          /\ folders' = r.tx.folders
          /\ items' = r.tx.items
          /\ item_versions' = r.tx.item_versions
    /\ UNCHANGED <<users, seq>>
    /\ Track

\* ROLLBACK, rethrow, `finally { client.release() }`, outer catch: 500
ImportRollback(p) ==
    /\ procs[p].op = "import" /\ procs[p].pc = "rollback"
    /\ LET now == [folders |-> folders, items |-> items, item_versions |-> item_versions]
       IN /\ procs' = [procs EXCEPT ![p] = Respond([procs[p] EXCEPT !.held = @ - 1], 500)]
          /\ folders' = Rollback(now, procs[p].tx).folders
          /\ items' = Rollback(now, procs[p].tx).items
          /\ item_versions' = Rollback(now, procs[p].tx).item_versions
    /\ UNCHANGED <<users, seq>>
    /\ Track

(***************************************************************************)
(* GET /api/folders and GET /api/items                                     *)
(* One SELECT on the pool each: it sees the committed tables.  The answer  *)
(* is kept as the set of rows (the ORDER BY is left out); `during` is the  *)
(* position of the same user's import transaction when the SELECT ran.     *)
(***************************************************************************)
\* where user u's import transaction stands, "none" when none is open
OpenImport(u) ==
    IF \E q \in DOMAIN procs : procs[q].op = "import" /\ procs[q].pc # "done" /\ procs[q].user = u
    THEN procs[CHOOSE q \in DOMAIN procs :
                   procs[q].op = "import" /\ procs[q].pc # "done" /\ procs[q].user = u].pc
    ELSE "none"

\* SELECT id, name, parent_id, ... FROM folders WHERE user_id = $1
FolderRows(fs, u) ==
    {[id |-> f, name |-> fs[f].name, parent_id |-> fs[f].parent_id] :
        f \in {x \in DOMAIN fs : fs[x].user_id = u}}

\* SELECT i.*, f.name as folder_name FROM items i JOIN folders f ON i.folder_id = f.id
\* WHERE i.user_id = $1
ItemRows(is, fs, u) ==
    {[id |-> i, name |-> is[i].name, type |-> is[i].type,
      encrypted_content |-> is[i].encrypted_content, folder_id |-> is[i].folder_id,
      folder_name |-> fs[is[i].folder_id].name] :
        i \in {x \in DOMAIN is : is[x].user_id = u /\ is[x].folder_id \in DOMAIN fs}}

ListFolders(p, u) ==
    /\ Free(p) /\ authenticateToken(u)
    /\ procs' = [procs EXCEPT ![p] =
          Respond([Idle EXCEPT !.op = "listFolders", !.user = u, !.body = FolderRows(folders, u),
                               !.during = OpenImport(u)], 200)]
    /\ UNCHANGED <<users, folders, items, item_versions, seq>>
    /\ Track

ListItems(p, u) ==
    /\ Free(p) /\ authenticateToken(u)
    /\ procs' = [procs EXCEPT ![p] =
          Respond([Idle EXCEPT !.op = "listItems", !.user = u, !.body = ItemRows(items, folders, u),
                               !.during = OpenImport(u)], 200)]
    /\ UNCHANGED <<users, folders, items, item_versions, seq>>
    /\ Track

(***************************************************************************)
(* The item routes, served concurrently for one registered user            *)
(***************************************************************************)
RootId == 1

\* request bodies of POST /api/items: {name, type, encryptedContent, folderId}
CreateBodies ==
    { [name |-> "n", type |-> "text", encryptedContent |-> c, folderId |-> RootId] : c \in {NULL, "a"} }
    \cup { [name |-> NULL, type |-> "text", encryptedContent |-> "a", folderId |-> RootId],
           [name |-> "n", type |-> "bogus", encryptedContent |-> "a", folderId |-> RootId],
           [name |-> "n", type |-> "text", encryptedContent |-> "a", folderId |-> 9] }

\* request bodies of PUT /api/items/:id: {name, encryptedContent, folderId}
UpdateBodies ==
    { [name |-> NULL, encryptedContent |-> c, folderId |-> NoId] : c \in {"", "a", "b"} }
    \cup { [name |-> "n", encryptedContent |-> NULL, folderId |-> RootId],
           [name |-> NULL, encryptedContent |-> NULL, folderId |-> 9] }

\* the tables after POST /api/auth/register of the first user
InitServer ==
    /\ users = (1 :> [email |-> "u1"])
    /\ folders = (RootId :> [name |-> "Root", parent_id |-> NoId, user_id |-> 1])
    /\ items = <<>>
    /\ item_versions = EmptyBag
    /\ seq = [users |-> 2, folders |-> 2, items |-> 1]
    /\ imports = 0
    /\ hist = <<>>

\* the state after POST /api/auth/register of the first user
InitRegistered ==
    /\ InitServer
    /\ service = NoService

Init ==
    /\ InitRegistered
    /\ procs = [p \in 1..NProcs |-> Idle]
    /\ limit = [folders |-> 1, items |-> MaxItemId, versions |-> MaxVersions,
                imports |-> MaxImports, importFolders |-> 1, importItems |-> MaxItemId]

ItemIds == 1..MaxItemId

Procs == DOMAIN procs
Users == DOMAIN users

\* create, update and delete of items
NextWrites ==
    \/ \E p \in Procs, u \in Users, b \in CreateBodies : CreateItemCheck(p, u, b)
    \/ \E p \in Procs : CreateItemInsert(p)
    \/ \E p \in Procs : CreateItemVersion(p)
    \/ \E p \in Procs, u \in Users, id \in ItemIds, b \in UpdateBodies : UpdateItemCheck(p, u, id, b)
    \/ \E p \in Procs : UpdateItemFolder(p)
    \/ \E p \in Procs : UpdateItemMax(p)
    \/ \E p \in Procs : UpdateItemUpdate(p)
    \/ \E p \in Procs : UpdateItemVersion(p)
    \/ \E p \in Procs, u \in Users, id \in ItemIds : DeleteItem(p, u, id)

\* listing of versions and file upload
NextOthers ==
    \/ \E p \in Procs, u \in Users, id \in ItemIds : ListVersionsCheck(p, u, id)
    \/ \E p \in Procs : ListVersionsSelect(p)
    \/ \E p \in Procs, u \in Users, hasFile \in BOOLEAN, fid \in {NoId, RootId}, encrypt \in {FALSE} :
            UploadCheck(p, u, hasFile, fid, encrypt)
    \/ \E p \in Procs : UploadInsert(p)

Spec == Init /\ [][NextWrites]_vars

\* the same routes with one request served at a time
InitSerial ==
    /\ InitRegistered
    /\ procs = [p \in {1} |-> Idle]
    /\ limit = [folders |-> 1, items |-> MaxItemId, versions |-> MaxVersions,
                imports |-> MaxImports, importFolders |-> 1, importItems |-> MaxItemId]

SpecSerial == InitSerial /\ [][NextWrites \/ NextOthers]_vars

(***************************************************************************)
(* Registration, the folder routes and import, served concurrently         *)
(***************************************************************************)
Emails == {"u1", "u2"}
FolderNames == {"Root", "A"}
FolderIds == 1..MaxFolderId

BundleFolder(id, name, parent) == [id |-> id, name |-> name, parent_id |-> parent]
BundleItem(name, folder) ==
    [name |-> name, type |-> "text", encrypted_content |-> "a", file_path |-> NULL,
     folder_id |-> folder]

\* an export of [Root, A under Root] with an item in A; the same with the child listed
\* before its parent; one folder whose parent is not in the bundle
Bundles ==
    { [key |-> 1, hasData |-> TRUE, parses |-> TRUE, wellFormed |-> TRUE, exported |-> FALSE,
       folders |-> <<BundleFolder(1, "Root", NoId), BundleFolder(2, "A", 1)>>,
       items |-> <<BundleItem("n", 2)>>],
      [key |-> 1, hasData |-> TRUE, parses |-> TRUE, wellFormed |-> TRUE, exported |-> FALSE,
       folders |-> <<BundleFolder(2, "A", 1), BundleFolder(1, "Root", NoId)>>,
       items |-> <<BundleItem("n", 2)>>],
      [key |-> 1, hasData |-> TRUE, parses |-> TRUE, wellFormed |-> TRUE, exported |-> FALSE,
       folders |-> <<BundleFolder(2, "A", 7)>>,
       items |-> <<>>] }

NextFolders ==
    \/ \E p \in Procs, e \in Emails : RegisterCheck(p, e, "password")
    \/ \E p \in Procs : RegisterUser(p)
    \/ \E p \in Procs : RegisterRoot(p)
    \/ \E p \in Procs, u \in Users, n \in FolderNames, f \in {NoId} \cup FolderIds : CreateFolderCheck(p, u, n, f)
    \/ \E p \in Procs : CreateFolderDup(p)
    \/ \E p \in Procs : CreateFolderInsert(p)
    \/ \E p \in Procs, u \in Users, id \in FolderIds, n \in FolderNames, f \in {NoId} \cup FolderIds :
            UpdateFolderCheck(p, u, id, n, f)
    \/ \E p \in Procs : UpdateFolderDup(p)
    \/ \E p \in Procs : UpdateFolderUpdate(p)
    \/ \E p \in Procs, u \in Users, id \in FolderIds : DeleteFolderCheck(p, u, id)
    \/ \E p \in Procs : DeleteFolderDelete(p)
    \/ \E p \in Procs, u \in Users, b \in Bundles, c \in BOOLEAN, first \in {NoId} \cup DOMAIN folders :
            Import(p, u, b, c, first)

InitFolders ==
    /\ InitRegistered
    /\ procs = [p \in 1..NProcs |-> Idle]
    /\ limit = [folders |-> MaxFolderId, items |-> MaxFolderItemId, versions |-> 0,
                imports |-> MaxImports, importFolders |-> MaxFolderId, importItems |-> MaxFolderItemId]

SpecFolders == InitFolders /\ [][NextFolders]_vars

\* the same routes with one request served at a time
InitFoldersSerial ==
    /\ InitRegistered
    /\ procs = [p \in {1} |-> Idle]
    /\ limit = [folders |-> MaxFolderId, items |-> MaxFolderItemId, versions |-> 0,
                imports |-> MaxImports, importFolders |-> MaxFolderId, importItems |-> MaxFolderItemId]

SpecFoldersSerial == InitFoldersSerial /\ [][NextFolders]_vars

(***************************************************************************)
(* Import into an account that has folders and items, one request at a     *)
(* time                                                                    *)
(***************************************************************************)
AccountFolderIds == 1..MaxAccountFolderId

\* bundles written by hand: a folder named Root under the Root; items that are skipped (a
\* file, a folder id that is not in the bundle) beside one that is not; a statement that
\* throws in the item replay and one in the folder replay; data under another user's key,
\* data that is not JSON, JSON without the two arrays, and no data at all
CraftedBundles ==
    { [key |-> 1, hasData |-> TRUE, parses |-> TRUE, wellFormed |-> TRUE, exported |-> FALSE,
       folders |-> <<BundleFolder(1, "Root", NoId), BundleFolder(2, "Root", 1)>>,
       items |-> <<BundleItem("n", 2)>>],
      [key |-> 1, hasData |-> TRUE, parses |-> TRUE, wellFormed |-> TRUE, exported |-> FALSE,
       folders |-> <<BundleFolder(1, "Root", NoId)>>,
       items |-> <<[BundleItem("f", 1) EXCEPT !.type = "file", !.file_path = Sentinel],
                   BundleItem("n", 9), BundleItem("n", 1)>>],
      [key |-> 1, hasData |-> TRUE, parses |-> TRUE, wellFormed |-> TRUE, exported |-> FALSE,
       folders |-> <<BundleFolder(1, "Root", NoId), BundleFolder(2, "A", 1)>>,
       items |-> <<BundleItem("n", 2), [BundleItem("n", 1) EXCEPT !.type = "note"]>>],
      [key |-> 1, hasData |-> TRUE, parses |-> TRUE, wellFormed |-> TRUE, exported |-> FALSE,
       folders |-> <<BundleFolder(1, "Root", NoId), BundleFolder(2, NULL, 1)>>,
       items |-> <<>>],
      [key |-> 2, hasData |-> TRUE, parses |-> TRUE, wellFormed |-> TRUE, exported |-> FALSE,
       folders |-> <<BundleFolder(1, "Root", NoId)>>,
       items |-> <<BundleItem("n", 1)>>],
      [key |-> 1, hasData |-> TRUE, parses |-> FALSE, wellFormed |-> FALSE, exported |-> FALSE,
       folders |-> <<>>, items |-> <<>>],
      [key |-> 1, hasData |-> TRUE, parses |-> TRUE, wellFormed |-> FALSE, exported |-> FALSE,
       folders |-> <<>>, items |-> <<>>],
      NoBundle }

\* the longest array of the bundles written by hand
LongestBundle == Max({Len(b.folders) : b \in Bundles \cup CraftedBundles}
                     \cup {Len(b.items) : b \in Bundles \cup CraftedBundles})

\* the bundles GET /api/backup/export has answered with and that a client still holds
ExportedBundles ==
    {procs[q].bundle : q \in {x \in DOMAIN procs : procs[x].op = "export" /\ procs[x].pc = "done"
                                                       /\ procs[x].status = 200}}

NextImport ==
    \/ \E p \in Procs, u \in Users, f \in {NoId, RootId} : CreateFolderCheck(p, u, "A", f)
    \/ \E p \in Procs : CreateFolderDup(p)
    \/ \E p \in Procs : CreateFolderInsert(p)
    \/ \E p \in Procs, u \in Users, f \in AccountFolderIds :
            CreateItemCheck(p, u, [name |-> "n", type |-> "text", encryptedContent |-> "a", folderId |-> f])
    \/ \E p \in Procs : CreateItemInsert(p)
    \/ \E p \in Procs : CreateItemVersion(p)
    \/ \E p \in Procs, u \in Users : UploadCheck(p, u, TRUE, RootId, FALSE)
    \/ \E p \in Procs : UploadInsert(p)
    \/ \E p \in Procs, u \in Users : ExportFolders(p, u)
    \/ \E p \in Procs : ExportItems(p)
    \/ \E p \in Procs, u \in Users, b \in Bundles \cup CraftedBundles \cup ExportedBundles, c \in BOOLEAN,
          first \in {NoId} \cup DOMAIN folders :
            Import(p, u, b, c, first)

InitImport ==
    /\ InitRegistered
    /\ procs = [p \in {1} |-> Idle]
    /\ limit = [folders |-> MaxAccountFolderId, items |-> MaxAccountItemId, versions |-> MaxAccountItemId,
                imports |-> MaxImports,
                importFolders |-> MaxAccountFolderId + LongestBundle * MaxImports,
                importItems |-> MaxAccountItemId + LongestBundle * MaxImports]

SpecImport == InitImport /\ [][NextImport]_vars

(***************************************************************************)
(* An import transaction with listings served beside it                    *)
(* Requests that write are started one at a time; GET /api/folders and     *)
(* GET /api/items are served at any time, between any two statements of an *)
(* import.  A slot is a client: one client sends the requests that write,  *)
(* the others list.                                                        *)
(***************************************************************************)
NoRequestInFlight == \A q \in DOMAIN procs : Free(q)

\* the first slot serves the requests that write, the other slots the listings
Writers == {p \in DOMAIN procs : \A q \in DOMAIN procs : p <= q}
Readers == DOMAIN procs \ Writers

NextImportRead ==
    \/ \E p \in Writers, u \in Users :
            /\ NoRequestInFlight
            /\ CreateItemCheck(p, u, [name |-> "n", type |-> "text", encryptedContent |-> "a",
                                      folderId |-> RootId])
    \/ \E p \in Procs : CreateItemInsert(p)
    \/ \E p \in Procs : CreateItemVersion(p)
    \/ \E p \in Writers, u \in Users, b \in Bundles \cup CraftedBundles, c \in BOOLEAN :
            NoRequestInFlight /\ ImportBegin(p, u, b, c)
    \/ \E p \in Procs : ImportDeleteItems(p)
    \/ \E p \in Procs : ImportDeleteFolders(p)
    \/ \E p \in Procs, first \in {NoId} \cup DOMAIN folders : ImportFolderTurn(p, first)
    \/ \E p \in Procs : ImportItemTurn(p)
    \/ \E p \in Procs : ImportCommit(p)
    \/ \E p \in Procs : ImportRollback(p)
    \/ \E p \in Readers, u \in Users : ListFolders(p, u)
    \/ \E p \in Readers, u \in Users : ListItems(p, u)

InitImportRead ==
    /\ InitRegistered
    /\ procs = [p \in 1..NProcs |-> Idle]
    /\ limit = [folders |-> 1, items |-> MaxItemId, versions |-> MaxItemId,
                imports |-> MaxImports,
                importFolders |-> 1 + LongestBundle * MaxImports,
                importItems |-> MaxItemId + LongestBundle * MaxImports]

SpecImportRead == InitImportRead /\ [][NextImportRead]_vars

(***************************************************************************)
(* Imports sent by several clients, each holding the answer to its last    *)
(* request                                                                 *)
(***************************************************************************)
NextImportClients ==
    \/ \E p \in Procs, u \in Users, b \in Bundles \cup CraftedBundles, c \in BOOLEAN,
          first \in {NoId} \cup DOMAIN folders :
            Import(p, u, b, c, first)

InitImportClients ==
    /\ InitRegistered
    /\ procs = [p \in 1..NProcs |-> Idle]
    /\ limit = [folders |-> 1, items |-> MaxItemId, versions |-> MaxItemId,
                imports |-> NProcs * MaxImports,
                importFolders |-> 1 + LongestBundle * NProcs * MaxImports,
                importItems |-> MaxItemId + LongestBundle * NProcs * MaxImports]

SpecImportClients == InitImportClients /\ [][NextImportClients]_vars

(***************************************************************************)
(* The client cipher: EncryptionService.encrypt / decrypt                  *)
(* A text is its sequence of UTF-8 bytes.  CryptoJS.AES.encrypt(text, key) *)
(* draws a salt, pads the bytes (PKCS7) to whole blocks and enciphers them *)
(* under a key stream derived from the passphrase and the salt; decrypt    *)
(* deciphers, strips the padding and decodes UTF-8.  AES itself is kept as *)
(* a keyed, salted byte substitution: what matters here is that the same   *)
(* key and salt undo it and another key does not.                          *)
(***************************************************************************)
BlockSize == 16
ByteValues == 256

Chars == {97, 98}
Texts == UNION {[1..n -> Chars] : n \in 0..MaxTextLen}
Keys == {1, 2}
Salts == {0, 1}

\* PKCS7: n bytes of value n, n = BlockSize - (length mod BlockSize), a whole block for
\* a text that already fills its blocks
Pad(bytes) ==
    LET n == BlockSize - (Len(bytes) % BlockSize)
    IN bytes \o [i \in 1..n |-> n]

\* the sigBytes left once the last byte's worth of padding is dropped
Unpad(bytes) ==
    IF bytes = <<>> THEN <<>>
    ELSE LET n == bytes[Len(bytes)]
         IN IF n >= Len(bytes) THEN <<>> ELSE SubSeq(bytes, 1, Len(bytes) - n)

KeyStream(key, salt, i) == (key * 7 + salt * 13 + i) % ByteValues

Encipher(bytes, key, salt) ==
    [i \in 1..Len(bytes) |-> (bytes[i] + KeyStream(key, salt, i)) % ByteValues]

Decipher(bytes, key, salt) ==
    [i \in 1..Len(bytes) |-> (bytes[i] + ByteValues - KeyStream(key, salt, i)) % ByteValues]

\* toString(CryptoJS.enc.Utf8) throws 'Malformed UTF-8 data' on bytes that are no UTF-8
Utf8Ok(bytes) == \A i \in 1..Len(bytes) : bytes[i] < 128

\* encrypt(text): the salt and the ciphertext, as toString() carries both
encrypt(text, key, salt) == [salt |-> salt, ct |-> Encipher(Pad(text), key, salt)]

\* decrypt(encryptedText): `if (!plaintext) throw`, and every throw becomes
\* Error('Failed to decrypt data')
decrypt(e, key) ==
    LET bytes == Unpad(Decipher(e.ct, key, e.salt))
    IN IF ~Utf8Ok(bytes) THEN [ok |-> FALSE, text |-> <<>>]
       ELSE IF bytes = <<>> THEN [ok |-> FALSE, text |-> <<>>]
       ELSE [ok |-> TRUE, text |-> bytes]

Server == <<users, folders, items, item_versions, seq, procs, limit, imports, hist>>

\* encryptionService.encrypt(formData.content)
Encrypt(salt) ==
    /\ service.stage = "new"
    /\ service' = [service EXCEPT !.stage = "encrypted",
                                  !.encrypted = encrypt(service.text, service.key, salt)]
    /\ UNCHANGED Server

\* encryptionService.decrypt(editItem.encrypted_content)
Decrypt ==
    /\ service.stage = "encrypted"
    /\ service' = [service EXCEPT !.stage = "decrypted",
                                  !.decrypted = decrypt(service.encrypted, service.key)]
    /\ UNCHANGED Server

NextCipher ==
    \/ \E salt \in Salts : Encrypt(salt)
    \/ Decrypt

\* a service made with a key, about to encrypt a text
InitCipher ==
    /\ InitServer
    /\ procs = [p \in {1} |-> Idle]
    /\ limit = [folders |-> 1, items |-> 0, versions |-> 0, imports |-> 0,
                importFolders |-> 1, importItems |-> 0]
    /\ service \in {[NoService EXCEPT !.stage = "new", !.key = k, !.text = t] : k \in Keys, t \in Texts}

SpecCipher == InitCipher /\ [][NextCipher]_vars

(***************************************************************************)
(* Two registered users who create, move and upload items and import, one  *)
(* request at a time; each may name the other's folder                     *)
(***************************************************************************)
\* the bundles of Bundles, encrypted under either user's key
BundlesOfBoth == {[b EXCEPT !.key = k] : b \in Bundles, k \in {1, 2}}

NextOwnership ==
    \/ \E p \in Procs, u \in Users, f \in DOMAIN folders :
            CreateItemCheck(p, u, [name |-> "n", type |-> "text", encryptedContent |-> "a", folderId |-> f])
    \/ \E p \in Procs : CreateItemInsert(p)
    \/ \E p \in Procs : CreateItemVersion(p)
    \/ \E p \in Procs, u \in Users, id \in DOMAIN items, f \in DOMAIN folders :
            UpdateItemCheck(p, u, id, [name |-> NULL, encryptedContent |-> NULL, folderId |-> f])
    \/ \E p \in Procs : UpdateItemFolder(p)
    \/ \E p \in Procs : UpdateItemMax(p)
    \/ \E p \in Procs : UpdateItemUpdate(p)
    \/ \E p \in Procs, u \in Users, f \in DOMAIN folders : UploadCheck(p, u, TRUE, f, FALSE)
    \/ \E p \in Procs : UploadInsert(p)
    \/ \E p \in Procs, u \in Users, b \in BundlesOfBoth, first \in {NoId} \cup DOMAIN folders :
            Import(p, u, b, FALSE, first)

\* the state after POST /api/auth/register of two users
InitOwnership ==
    /\ users = (1 :> [email |-> "u1"]) @@ (2 :> [email |-> "u2"])
    /\ folders = (1 :> [name |-> "Root", parent_id |-> NoId, user_id |-> 1])
                    @@ (2 :> [name |-> "Root", parent_id |-> NoId, user_id |-> 2])
    /\ items = <<>>
    /\ item_versions = EmptyBag
    /\ seq = [users |-> 3, folders |-> 3, items |-> 1]
    /\ imports = 0
    /\ hist = <<>>
    /\ service = NoService
    /\ procs = [p \in {1} |-> Idle]
    /\ limit = [folders |-> 2, items |-> MaxItemId, versions |-> MaxVersions,
                imports |-> MaxImports,
                importFolders |-> 2 + LongestBundle * MaxImports,
                importItems |-> MaxItemId + LongestBundle * MaxImports]

SpecOwnership == InitOwnership /\ [][NextOwnership]_vars

(***************************************************************************)
(* Exports served beside folder creation, item creation and import         *)
(***************************************************************************)
NextExportRace ==
    \/ \E p \in Procs, u \in Users : CreateFolderCheck(p, u, "A", RootId)
    \/ \E p \in Procs : CreateFolderDup(p)
    \/ \E p \in Procs : CreateFolderInsert(p)
    \/ \E p \in Procs, u \in Users, f \in DOMAIN folders :
            CreateItemCheck(p, u, [name |-> "n", type |-> "text", encryptedContent |-> "a", folderId |-> f])
    \/ \E p \in Procs : CreateItemInsert(p)
    \/ \E p \in Procs : CreateItemVersion(p)
    \/ \E p \in Procs, u \in Users : ExportFolders(p, u)
    \/ \E p \in Procs : ExportItems(p)
    \/ \E p \in Procs, u \in Users, b \in Bundles, c \in BOOLEAN, first \in {NoId} \cup DOMAIN folders :
            Import(p, u, b, c, first)

InitExportRace ==
    /\ InitRegistered
    /\ procs = [p \in 1..NProcs |-> Idle]
    /\ limit = [folders |-> MaxFolderId, items |-> MaxItemId, versions |-> MaxItemId,
                imports |-> MaxImports,
                importFolders |-> MaxFolderId + LongestBundle * MaxImports,
                importItems |-> MaxItemId + LongestBundle * MaxImports]

SpecExportRace == InitExportRace /\ [][NextExportRace]_vars

(***************************************************************************)
(* Export and import, statement by statement, on a database that may       *)
(* reject a statement of the export; one request at a time                 *)
(***************************************************************************)
NextPool ==
    \/ \E p \in Procs, u \in Users :
            CreateItemCheck(p, u, [name |-> "n", type |-> "text", encryptedContent |-> "a",
                                   folderId |-> RootId])
    \/ \E p \in Procs : CreateItemInsert(p)
    \/ \E p \in Procs : CreateItemVersion(p)
    \/ \E p \in Procs, u \in Users : ExportFolders(p, u)
    \/ \E p \in Procs : ExportItems(p)
    \/ \E p \in Procs : ExportThrows(p)
    \/ \E p \in Procs, u \in Users, b \in Bundles \cup CraftedBundles, c \in BOOLEAN :
            ImportBegin(p, u, b, c)
    \/ \E p \in Procs : ImportDeleteItems(p)
    \/ \E p \in Procs : ImportDeleteFolders(p)
    \/ \E p \in Procs, first \in {NoId} \cup DOMAIN folders : ImportFolderTurn(p, first)
    \/ \E p \in Procs : ImportItemTurn(p)
    \/ \E p \in Procs : ImportCommit(p)
    \/ \E p \in Procs : ImportRollback(p)

InitPool ==
    /\ InitRegistered
    /\ procs = [p \in {1} |-> Idle]
    /\ limit = [folders |-> 1, items |-> MaxItemId, versions |-> MaxItemId,
                imports |-> MaxImports,
                importFolders |-> 1 + LongestBundle * MaxImports,
                importItems |-> MaxItemId + LongestBundle * MaxImports]

SpecPool == InitPool /\ [][NextPool]_vars

(***************************************************************************)
(* An import sent again: the client repeats the import it has just been    *)
(* answered 200 for, with the same bundle and the same clearExisting       *)
(***************************************************************************)
ImportAgain(p, first) ==
    /\ procs[p].op = "import" /\ procs[p].pc = "done" /\ procs[p].status = 200
    /\ Import(p, procs[p].user, procs[p].bundle, procs[p].clearExisting, first)

NextImportTwice ==
    \/ \E p \in Procs, u \in Users : CreateFolderCheck(p, u, "A", RootId)
    \/ \E p \in Procs : CreateFolderDup(p)
    \/ \E p \in Procs : CreateFolderInsert(p)
    \/ \E p \in Procs, u \in Users, f \in DOMAIN folders :
            CreateItemCheck(p, u, [name |-> "n", type |-> "text", encryptedContent |-> "a", folderId |-> f])
    \/ \E p \in Procs : CreateItemInsert(p)
    \/ \E p \in Procs : CreateItemVersion(p)
    \/ \E p \in Procs, u \in Users, b \in Bundles \cup CraftedBundles, c \in BOOLEAN,
          first \in {NoId} \cup DOMAIN folders :
            imports = 0 /\ Import(p, u, b, c, first)
    \/ \E p \in Procs, first \in {NoId} \cup DOMAIN folders : ImportAgain(p, first)

InitImportTwice ==
    /\ InitRegistered
    /\ procs = [p \in {1} |-> Idle]
    /\ limit = [folders |-> MaxFolderId, items |-> MaxItemId, versions |-> MaxItemId,
                imports |-> MaxImports + 1,
                importFolders |-> MaxFolderId + LongestBundle * (MaxImports + 1),
                importItems |-> MaxItemId + LongestBundle * (MaxImports + 1)]

SpecImportTwice == InitImportTwice /\ [][NextImportTwice]_vars

(***************************************************************************)
(* Versioned content store: properties                                     *)
(***************************************************************************)
\* <<n, n-1, ..., 1>>
Desc(n) == [k \in 1..n |-> n + 1 - k]

Answered(p, op) == procs[p].op = op /\ procs[p].pc = "done"

\* POST /api/items has inserted item i and not yet its first version
BeingCreated(i) ==
    \E p \in DOMAIN procs : procs[p].op = "createItem" /\ procs[p].pc = "version" /\ procs[p].id = i

\* C1: in every reachable state, with item creates and updates served concurrently, the
\* version numbers recorded for one item are pairwise distinct and are exactly 1..k.
C1_VersionNumbersGapless ==
    \A i \in DOMAIN items :
        LET V == VersionsOf(i)
        IN /\ \A v \in DOMAIN V : V[v] = 1
           /\ \A v, w \in DOMAIN V : v # w => v.version_number # w.version_number
           /\ {v.version_number : v \in DOMAIN V} = 1..BagCardinality(V)

\* C2: for an item made by POST /api/items and then updated N times one after another,
\* every update carrying content other than the item's content at that time, the
\* version listing answers exactly the version numbers N+1, N, ..., 1 in that order.
C2_ListingAfterUpdates ==
    \A p \in DOMAIN procs :
        (/\ Answered(p, "listVersions") /\ procs[p].status = 200
         /\ procs[p].id \in DOMAIN hist /\ hist[procs[p].id].distinct)
        => procs[p].body = Desc(hist[procs[p].id].updates + 1)

\* C3: an answered item update has appended a version record if and only if its UPDATE
\* statement left the item's stored encrypted content different from what it was.
C3_VersionIffContentChanged ==
    \A p \in DOMAIN procs :
        (Answered(p, "updateItem") /\ procs[p].status = 200)
        => (procs[p].appended = 1 <=> procs[p].changed)

\* C4: no step of an item update whose content field is absent, or equal to the stored
\* content the handler read, changes the version records.
C4_SameContentNoVersion ==
    [][\A p \in DOMAIN procs :
          (/\ procs[p].op = "updateItem" /\ procs[p].pc # "done" /\ procs'[p] # procs[p]
           /\ (procs[p].enc = NULL \/ procs[p].enc = procs[p].old))
          => item_versions' = item_versions]_vars

\* an update that carried the very content the handler read has been answered, and
\* the item still has the version records it had
C4_Witness ==
    \E p \in DOMAIN procs :
        /\ Answered(p, "updateItem") /\ procs[p].status = 200
        /\ Truthy(procs[p].enc) /\ procs[p].enc = procs[p].old
        /\ procs[p].appended = 0
        /\ BagCardinality(VersionsOf(procs[p].id)) >= 1

\* C5: every item whose creation has finished has exactly one version record numbered 1.
C5_CreationRecordsVersionOne ==
    \A i \in DOMAIN items :
        ~BeingCreated(i) =>
            BagCardinality([v \in {x \in DOMAIN VersionsOf(i) : x.version_number = 1}
                                |-> item_versions[v]]) = 1

(***************************************************************************)
(* Folder tree: properties                                                 *)
(***************************************************************************)
\* POST /api/auth/register has inserted user u and not yet the Root folder
BeingRegistered(u) ==
    \E p \in DOMAIN procs : procs[p].op = "register" /\ procs[p].pc = "root" /\ procs[p].user = u

\* a folder named Root at root level
IsRoot(f) == f \in DOMAIN folders /\ folders[f].name = "Root" /\ folders[f].parent_id = NoId

\* the folders met by following parent references from f, at most n steps
RECURSIVE Ancestors(_, _)
Ancestors(f, n) ==
    IF n = 0 \/ f \notin DOMAIN folders \/ folders[f].parent_id = NoId THEN {}
    ELSE {folders[f].parent_id} \cup Ancestors(folders[f].parent_id, n - 1)

\* following parent references from f ends at a folder with null parent within n steps
RECURSIVE ReachesTop(_, _)
ReachesTop(f, n) ==
    /\ f \in DOMAIN folders
    /\ \/ folders[f].parent_id = NoId
       \/ n > 0 /\ ReachesTop(folders[f].parent_id, n - 1)

\* C6: in every reachable state every registered user owns exactly one folder whose name
\* is Root and whose parent is null.
C6_ExactlyOneRoot ==
    \A u \in DOMAIN users :
        ~BeingRegistered(u) => Cardinality(ExistingRoot(folders, u)) = 1

\* C7: a request, by any caller, to delete a folder that is a user's Root folder (named
\* Root, null parent) when the request arrives is rejected at once (403 for the owner,
\* 404 for anybody else), and the step changes no folder, item or version.
C7_RootDeleteRejected ==
    [][\A p \in DOMAIN procs :
          (/\ procs[p].pc = "done"
           /\ procs'[p] # procs[p]
           /\ procs'[p].op = "deleteFolder"
           /\ IsRoot(procs'[p].id))
          => /\ procs'[p].pc = "done"
             /\ procs'[p].status = IF folders[procs'[p].id].user_id = procs'[p].user THEN 403 ELSE 404
             /\ folders' = folders /\ items' = items /\ item_versions' = item_versions]_vars

\* a delete of a Root folder that has a subfolder was answered 403 and both are in place
C7_Witness ==
    \E p \in DOMAIN procs :
        /\ Answered(p, "deleteFolder")
        /\ procs[p].status = 403
        /\ IsRoot(procs[p].id)
        /\ folders[procs[p].id].user_id = procs[p].user
        /\ \E f \in DOMAIN folders : folders[f].parent_id = procs[p].id /\ f # procs[p].id

\* C8: in every reachable state the folders form a tree: following parent references from
\* any folder reaches a folder with null parent, and no folder is its own ancestor.
C8_FoldersFormTree ==
    \A f \in DOMAIN folders :
        /\ ReachesTop(f, Cardinality(DOMAIN folders))
        /\ f \notin Ancestors(f, Cardinality(DOMAIN folders))

\* C9: in every reachable state no two distinct folders of the same user have the same
\* name and the same parent, the null parent included.
C9_SiblingNamesUnique ==
    \A f, g \in DOMAIN folders :
        (/\ f # g
         /\ folders[f].user_id = folders[g].user_id
         /\ folders[f].name = folders[g].name
         /\ folders[f].parent_id = folders[g].parent_id) => FALSE

(***************************************************************************)
(* Import: properties                                                      *)
(***************************************************************************)
\* the bundle ids of the folders replayed before the k-th one
ReplayedBefore(b, k) == {b.folders[j].id : j \in 1..(k - 1)}

\* C10: after a successful import, a bundle folder with a non-null parent id that had no
\* entry in the id mapping when the folder was replayed (no earlier folder of the bundle
\* has that id) was not inserted and has no mapping entry.
C10_UnmappedParentNotInserted ==
    \A p \in DOMAIN procs :
        (Answered(p, "import") /\ procs[p].status = 200) =>
            \A k \in 1..Len(procs[p].bundle.folders) :
                LET folder == procs[p].bundle.folders[k]
                IN (folder.parent_id # NoId /\ folder.parent_id \notin ReplayedBefore(procs[p].bundle, k))
                      => folder.id \notin DOMAIN procs[p].map

\* the import request slot p has just been answered 200
Imported(p) == Answered(p, "import") /\ procs[p].status = 200

\* a step in which slot p serves an import request
ImportStep(p) == procs[p].pc = "done" /\ procs'[p] # procs[p] /\ procs'[p].op = "import"

\* the folders, the items and the versions of user u's items
FoldersOf(fs, u) == {f \in DOMAIN fs : fs[f].user_id = u}
ItemsOf(is, u) == {i \in DOMAIN is : is[i].user_id = u}
Range(f) == {f[x] : x \in DOMAIN f}

\* C11: the folder count and the item count a successful import returns are the numbers
\* of folder rows and item rows the import inserted.
C11_CountsAreInsertedRows ==
    \A p \in DOMAIN procs :
        Imported(p) =>
            procs[p].body = <<Cardinality(procs[p].newFolders), Cardinality(DOMAIN procs[p].newItems)>>

\* C12: an import whose data does not decrypt under the caller's key, is not JSON, or lacks
\* the folders or items array is answered with an error and leaves the folders, items and
\* versions exactly as they were, clearExisting or not.
C12_FailedDecryptionWritesNothing ==
    [][\A p \in DOMAIN procs :
          (/\ ImportStep(p)
           /\ procs'[p].bundle.hasData
           /\ \/ procs'[p].bundle.key # procs'[p].user
              \/ ~procs'[p].bundle.parses
              \/ ~procs'[p].bundle.wellFormed)
          => /\ procs'[p].status \in {400, 500}
             /\ folders' = folders /\ items' = items /\ item_versions' = item_versions]_vars

\* an import under another user's key with clearExisting was answered 500 and the caller
\* still has the Root folder and an item
C12_Witness ==
    \E p \in DOMAIN procs :
        /\ Answered(p, "import") /\ procs[p].status = 500
        /\ procs[p].clearExisting
        /\ procs[p].bundle.hasData /\ procs[p].bundle.key # procs[p].user
        /\ RootId \in FoldersOf(folders, procs[p].user)
        /\ ItemsOf(items, procs[p].user) # {}

\* C13: an import that fails after BEGIN (a statement of the replay throws) is answered 500
\* and leaves the folders, items and versions exactly as they were before the import.
C13_FailedReplayRollsBack ==
    [][\A p \in DOMAIN procs :
          (/\ ImportStep(p)
           /\ procs'[p].bundle.hasData /\ procs'[p].bundle.key = procs'[p].user
           /\ procs'[p].bundle.parses /\ procs'[p].bundle.wellFormed
           /\ procs'[p].status # 200)
          => /\ procs'[p].status = 500
             /\ folders' = folders /\ items' = items /\ item_versions' = item_versions]_vars

\* an import with clearExisting whose item replay threw after an insert was answered 500,
\* and the caller still has the folders and items it had
C13_Witness ==
    \E p \in DOMAIN procs :
        /\ Answered(p, "import") /\ procs[p].status = 500
        /\ procs[p].clearExisting
        /\ procs[p].bundle.key = procs[p].user /\ procs[p].bundle.parses
        /\ \E k \in 2..Len(procs[p].bundle.items) : procs[p].bundle.items[k].type \notin validTypes
        /\ RootId \in FoldersOf(folders, procs[p].user)
        /\ ItemsOf(items, procs[p].user) # {}
        /\ seq.items > Max(DOMAIN items) + 1

\* C14: with clearExisting false and a Root folder already there, a bundle folder is mapped
\* onto the existing Root (not inserted) exactly when it is named Root and has no parent.
C14_RootMappedOnlyWithoutParent ==
    \A p \in DOMAIN procs :
        (/\ Imported(p) /\ ~procs[p].clearExisting
         /\ ExistingRoot(folders, procs[p].user) \ procs[p].newFolders # {}) =>
            \A k \in 1..Len(procs[p].bundle.folders) :
                LET folder == procs[p].bundle.folders[k]
                    mappedOntoRoot ==
                        /\ folder.id \in DOMAIN procs[p].map
                        /\ procs[p].map[folder.id] \notin procs[p].newFolders
                IN mappedOntoRoot <=> (folder.name = "Root" /\ folder.parent_id = NoId)

\* every folder of the bundle comes after its parent
ParentsFirst(b) ==
    \A k \in 1..Len(b.folders) :
        b.folders[k].parent_id = NoId \/ b.folders[k].parent_id \in ReplayedBefore(b, k)

\* the items of the bundle that are not of type file
NonFile(b) == {k \in 1..Len(b.items) : b.items[k].type # "file"}

C16_ItemsFollowTheMapping ==
    \A p \in DOMAIN procs :
        Imported(p) =>
            \A k \in 1..Len(procs[p].bundle.items) :
                LET item == procs[p].bundle.items[k]
                IN /\ k \in DOMAIN procs[p].newItems =>
                        /\ item.type # "file"
                        /\ item.folder_id \in DOMAIN procs[p].map
                        /\ procs[p].newItems[k] \in DOMAIN items
                        /\ items[procs[p].newItems[k]].folder_id = procs[p].map[item.folder_id]
                   /\ item.folder_id \notin DOMAIN procs[p].map => k \notin DOMAIN procs[p].newItems

\* an import that skipped an item whose folder id does not resolve and inserted another
\* was answered 200
C16_Witness ==
    \E p \in DOMAIN procs :
        /\ Imported(p)
        /\ \E k \in 1..Len(procs[p].bundle.items) :
              /\ procs[p].bundle.items[k].type # "file"
              /\ procs[p].bundle.items[k].folder_id \notin DOMAIN procs[p].map
        /\ procs[p].newItems # <<>>

\* C17: in every exported bundle an item of type file carries the sentinel as its file
\* path; a successful import inserts no item of type file and does not count one.
C17_FileItemsNotRestored ==
    \A p \in DOMAIN procs :
        /\ (Answered(p, "export") /\ procs[p].status = 200) =>
              \A k \in 1..Len(procs[p].bundle.items) :
                  procs[p].bundle.items[k].type = "file" => procs[p].bundle.items[k].file_path = Sentinel
        /\ Imported(p) =>
              /\ \A k \in DOMAIN procs[p].newItems :
                    /\ procs[p].bundle.items[k].type # "file"
                    /\ items[procs[p].newItems[k]].type # "file"
              /\ procs[p].body[2] <= Cardinality(NonFile(procs[p].bundle))

\* an exported bundle with an uploaded file, its path replaced by the sentinel, was imported
\* and the count returned leaves the file out
C17_Witness ==
    \E p \in DOMAIN procs :
        /\ Imported(p) /\ procs[p].bundle.exported
        /\ \E k \in 1..Len(procs[p].bundle.items) :
              /\ procs[p].bundle.items[k].type = "file"
              /\ procs[p].bundle.items[k].file_path = Sentinel
        /\ procs[p].body[2] = Len(procs[p].bundle.items) - 1

\* C18: a successful import with clearExisting leaves none of the folders, items and
\* versions the user had before it; afterwards the user's folders and items are exactly the
\* rows the replay inserted.
C18_ClearExistingRemovesAll ==
    [][\A p \in DOMAIN procs :
          (ImportStep(p) /\ procs'[p].status = 200 /\ procs'[p].clearExisting) =>
              LET u == procs'[p].user
              IN /\ FoldersOf(folders, u) \cap DOMAIN folders' = {}
                 /\ ItemsOf(items, u) \cap DOMAIN items' = {}
                 /\ \A v \in DOMAIN item_versions' : v.item_id \notin ItemsOf(items, u)
                 /\ FoldersOf(folders', u) = procs'[p].newFolders
                 /\ ItemsOf(items', u) = Range(procs'[p].newItems)]_vars

\* an import with clearExisting was answered 200 in an account that had made items: the
\* Root folder of the registration and those items are gone
C18_Witness ==
    \E p \in DOMAIN procs :
        /\ Imported(p) /\ procs[p].clearExisting
        /\ RootId \notin DOMAIN folders
        /\ procs[p].newFolders # {}
        /\ seq.items > 1
        /\ ItemsOf(items, procs[p].user) = Range(procs[p].newItems)
        /\ item_versions = EmptyBag

\* a step in which slot r answers GET /api/folders or GET /api/items
ListStep(r) == procs'[r] # procs[r] /\ procs'[r].op \in {"listFolders", "listItems"}

\* C19: a listing of the user's folders or items answered while an import of that user is
\* between BEGIN and COMMIT or ROLLBACK returns the rows as they were at BEGIN: never the
\* rows left by the clearExisting deletes, never a partly replayed bundle.  (A listing
\* answered with no import open returns the committed rows, those after the import.)
C19_ListingsSeeNoOpenTransaction ==
    [][\A r \in DOMAIN procs : \A p \in DOMAIN procs :
          (/\ ListStep(r)
           /\ procs[p].op = "import" /\ procs[p].pc # "done"
           /\ procs[p].user = procs'[r].user)
          => procs'[r].body =
                IF procs'[r].op = "listFolders"
                THEN FolderRows(procs[p].before.folders, procs[p].user)
                ELSE ItemRows(procs[p].before.items, procs[p].before.folders, procs[p].user)]_vars

\* GET /api/folders was answered with the user's folders while the import, which had run
\* its deletes, had no folder of the user in its view
C19_Witness ==
    \E r \in DOMAIN procs : \E p \in DOMAIN procs :
        /\ Answered(r, "listFolders") /\ procs[r].during = "folders" /\ procs[r].body # {}
        /\ procs[p].op = "import" /\ procs[p].pc = "folders" /\ procs[p].clearExisting
        /\ procs[p].user = procs[r].user
        /\ FolderRows(procs[p].tx.folders, procs[p].user) = {}

(***************************************************************************)
(* Concurrent requests: properties                                         *)
(***************************************************************************)
\* C20: under any interleaving, PUT /api/items/:id never reaches its INSERT INTO
\* item_versions for an item that has been deleted since its ownership check.
C20_NoVersionForDeletedItem ==
    \A p \in DOMAIN procs :
        (procs[p].op = "updateItem" /\ procs[p].pc = "version") => procs[p].id \in DOMAIN items


(***************************************************************************)
(* Frame properties                                                        *)
(***************************************************************************)
\* C21: a version record is never changed and leaves the table only with its item: in
\* every step, each row of item_versions whose item still exists afterwards is still in
\* the table, as many times, with the number and the content it was written with.
C21_VersionsAppendOnly ==
    [][\A v \in DOMAIN item_versions :
          v.item_id \in DOMAIN items'
             => (v \in DOMAIN item_versions' /\ item_versions'[v] >= item_versions[v])]_vars

\* an item whose content was updated holds version 1 with the content it was created with
\* beside version 2
C21_Witness ==
    \E p \in DOMAIN procs : \E v \in DOMAIN item_versions : \E w \in DOMAIN item_versions :
        /\ Answered(p, "updateItem") /\ procs[p].status = 200 /\ procs[p].appended = 1
        /\ procs[p].id \in DOMAIN items
        /\ v.item_id = procs[p].id /\ v.version_number = 1
        /\ w.item_id = procs[p].id /\ w.version_number = 2
        /\ w.encrypted_content # v.encrypted_content


\* C28: a successful import without clearExisting only adds rows: every folder, item and
\* version record the user had before it is still there afterwards, unchanged.
C28_ImportOnlyAdds ==
    [][\A p \in DOMAIN procs :
          (ImportStep(p) /\ procs'[p].status = 200 /\ ~procs'[p].clearExisting)
          => /\ \A f \in FoldersOf(folders, procs'[p].user) :
                   f \in DOMAIN folders' /\ folders'[f] = folders[f]
             /\ \A i \in ItemsOf(items, procs'[p].user) :
                   i \in DOMAIN items' /\ items'[i] = items[i]
             /\ \A v \in DOMAIN item_versions :
                   v.item_id \in ItemsOf(items, procs'[p].user)
                      => (v \in DOMAIN item_versions' /\ item_versions'[v] = item_versions[v])]_vars

\* an import without clearExisting has inserted a folder and an item for a user who
\* already had an item with a version record
C28_Witness ==
    \E p \in DOMAIN procs :
        /\ Imported(p) /\ ~procs[p].clearExisting
        /\ procs[p].newFolders # {} /\ procs[p].newItems # <<>>
        /\ \E i \in ItemsOf(items, procs[p].user) :
              /\ i \notin Range(procs[p].newItems)
              /\ VersionsOf(i) # EmptyBag

\* the names from a top-level folder down to folder f
RECURSIVE Path(_, _)
Path(fs, f) ==
    IF fs[f].parent_id \in DOMAIN fs
    THEN Append(Path(fs, fs[f].parent_id), fs[f].name)
    ELSE <<fs[f].name>>

\* user u's account up to ids: how many folders there are at each path and how many items
\* of each name, type and content in a folder of each path
FolderShape(fs, u) ==
    LET S == FoldersOf(fs, u)
    IN [x \in {Path(fs, f) : f \in S} |-> Cardinality({f \in S : Path(fs, f) = x})]
ItemShape(is, fs, u) ==
    LET S == ItemsOf(is, u)
        K(i) == <<is[i].name, is[i].type, is[i].encrypted_content, Path(fs, is[i].folder_id)>>
    IN [x \in {K(i) : i \in S} |-> Cardinality({i \in S : K(i) = x})]

\* C30: an import with clearExisting sent a second time in a row, same bundle, is answered
\* 200 with the same counts and leaves the same folder names and hierarchy and the same
\* items in the same folders as the first left, up to ids.
C30_ClearingImportIdempotent ==
    [][\A p \in DOMAIN procs :
          (/\ ImportStep(p)
           /\ procs[p].op = "import" /\ procs[p].status = 200 /\ procs[p].clearExisting
           /\ procs'[p].user = procs[p].user /\ procs'[p].bundle = procs[p].bundle
           /\ procs'[p].clearExisting)
          => /\ procs'[p].status = 200
             /\ procs'[p].body = procs[p].body
             /\ FolderShape(folders', procs[p].user) = FolderShape(folders, procs[p].user)
             /\ ItemShape(items', folders', procs[p].user) = ItemShape(items, folders, procs[p].user)]_vars

\* the same import with clearExisting has been served twice and has left a folder under a
\* folder, with an item in it
C30_Witness ==
    \E p \in DOMAIN procs :
        /\ imports = 2 /\ Imported(p) /\ procs[p].clearExisting
        /\ procs[p].newItems # <<>>
        /\ \E f \in procs[p].newFolders : folders[f].parent_id \in procs[p].newFolders

(***************************************************************************)
(* Import: error outcomes                                                  *)
(***************************************************************************)
\* C22: an import whose data decrypts under the caller's key but is not JSON, or lacks the
\* folders or the items array, is answered with a status other than that of an import
\* whose data does not decrypt.
C22_MalformedDistinctFromWrongKey ==
    \A p \in DOMAIN procs : \A q \in DOMAIN procs :
        (/\ Answered(p, "import") /\ procs[p].bundle.hasData
         /\ Decrypts(procs[p].bundle, procs[p].user)
         /\ (~procs[p].bundle.parses \/ ~procs[p].bundle.wellFormed)
         /\ Answered(q, "import") /\ procs[q].bundle.hasData
         /\ ~Decrypts(procs[q].bundle, procs[q].user))
        => procs[p].status # procs[q].status


(***************************************************************************)
(* Client cipher: properties                                               *)
(***************************************************************************)
\* C23: for every plaintext, the empty one included, and every key, decrypt of what
\* encrypt returned under that key gives the plaintext back and raises no error.
C23_DecryptInvertsEncrypt ==
    service.stage = "decrypted"
        => (service.decrypted.ok /\ service.decrypted.text = service.text)


(***************************************************************************)
(* Items and their versions: properties                                    *)
(***************************************************************************)
\* a request on item i is between its first statement and its response
InProgress(i) ==
    \E p \in DOMAIN procs :
        procs[p].pc # "done" /\ procs[p].op \in {"createItem", "updateItem"} /\ procs[p].id = i

\* C24: whenever no create or update of an item is in progress, the item has a version
\* record and every record with its highest version number holds the item's stored
\* content.
C24_ContentIsLatestVersion ==
    \A i \in DOMAIN items :
        ~InProgress(i) =>
            /\ VersionsOf(i) # EmptyBag
            /\ \A v \in DOMAIN VersionsOf(i) :
                  v.version_number = MaxVersion(i) => v.encrypted_content = items[i].encrypted_content


(***************************************************************************)
(* Ownership: properties                                                   *)
(***************************************************************************)
\* C25: requests of one user leave another user's data alone; in particular no folder has
\* a parent folder owned by a different user.
C25_NoParentOfAnotherUser ==
    \A f \in DOMAIN folders :
        folders[f].parent_id \in DOMAIN folders
            => folders[folders[f].parent_id].user_id = folders[f].user_id

\* C26: every item is owned by the user who owns the folder it is in.
C26_ItemOwnerIsFolderOwner ==
    \A i \in DOMAIN items :
        /\ items[i].folder_id \in DOMAIN folders
        /\ folders[items[i].folder_id].user_id = items[i].user_id

\* a user's PUT /api/items/:id on an item of theirs was answered 404, which is the answer
\* of the folder check: the request named a folder of the other user
C26_Witness ==
    \E p \in DOMAIN procs :
        /\ Answered(p, "updateItem") /\ procs[p].status = 404
        /\ OwnsItem(procs[p].user, procs[p].id)
        /\ \E f \in DOMAIN folders : folders[f].user_id # procs[p].user


(***************************************************************************)
(* Export: properties                                                      *)
(***************************************************************************)
\* C27: in every bundle GET /api/backup/export answers with, each item's folder id is the
\* id of a folder of the same bundle, whatever commits while the export reads.
C27_ExportIsSnapshot ==
    \A p \in DOMAIN procs :
        (Answered(p, "export") /\ procs[p].status = 200) =>
            \A k \in DOMAIN procs[p].bundle.items :
                \E j \in DOMAIN procs[p].bundle.folders :
                    procs[p].bundle.folders[j].id = procs[p].bundle.items[k].folder_id


(***************************************************************************)
(* Pool clients: properties                                                *)
(***************************************************************************)
\* C29: once an export or an import has been answered, with success or with an error, the
\* request holds no client of the pool.
C29_ClientsReleased ==
    \A p \in DOMAIN procs :
        (procs[p].pc = "done" /\ procs[p].op \in {"export", "import"}) => procs[p].held = 0

=============================================================================
